---- MODULE Spec2Model ----
(***************************************************************************)
(* A model of CameraDaemon (src/camera_monitor.py): the main thread that   *)
(* runs run() / device_event_listener(), the signal handler shutdown(),    *)
(* the pyudev MonitorObserver thread that calls handle_event() for each    *)
(* delivered device event, and the process_device() worker threads that    *)
(* handle_event starts.                                                    *)
(***************************************************************************)
EXTENDS Integers, Sequences, FiniteSets, TLC

(***************************************************************************)
(* Bounds of the model and constants of the program.                       *)
(***************************************************************************)
\* number of device events the OS delivers in one run
MaxEvents == 2
\* range(10) of the automount wait, handle_event line 214
MaxPolls == 10
\* the configured screencap_interval, in seconds
Interval == 2
\* clip.duration of the video on the volume, in units of 1/Scale second
VideoDuration == 7
\* resolution of the fixed-point clip duration (units per second)
Scale == 2

\* device paths (device.device_path)
Devices == {"d1", "d2"}

\* the camera_models entry of the daemon's configuration file
ConfiguredModels == << <<"C", "a">> >>

\* ID_MODEL values carried by the modelled devices, as character sequences
CamModel == <<"C", "a", "m">>
OtherModel == <<"H", "u", "b">>

NoEvent == [path |-> "none", action |-> "none", model |-> <<>>, props |-> {}]

\* the device events the notification source can deliver
EventKinds ==
    { [path |-> "d1", action |-> "add", model |-> CamModel,
       props |-> {"ID_MODEL"}],
      [path |-> "d2", action |-> "add", model |-> CamModel,
       props |-> {"ID_MODEL"}],
      [path |-> "d2", action |-> "add", model |-> OtherModel,
       props |-> {"ID_MODEL"}],
      [path |-> "d1", action |-> "remove", model |-> CamModel,
       props |-> {"ID_MODEL"}] }

\* the files os.walk finds on each device's volume, in walk order
Volume(d) ==
    IF d = "d1" THEN <<"image", "video">> ELSE <<"other", "image">>

VARIABLES
    shutdown_event,  \* self.shutdown_event (threading.Event)
    mainpc,          \* position of the main thread in run()
    obspc,           \* position of the MonitorObserver thread
    cur,             \* the device handle_event is being called with
    pollIdx,         \* iteration index of the automount loop (line 214)
    stopSent,        \* observer.stop() has sent its stop event
    pending,         \* events delivered by the OS, not yet read
    delivered,       \* number of events delivered so far
    curId,           \* index of the event being handled
    mounted,         \* whether the device's first mount point exists
    workers,         \* the process_device threads started so far
    hist,            \* per event: what handle_event did with it
    archive,         \* the date bucket under incoming_dir
    input,           \* argument of a function applied on its own
    output           \* its result

vars == << shutdown_event, mainpc, obspc, cur, pollIdx, stopSent,
           pending, delivered, curId, mounted, workers, hist, archive,
           input, output >>

\* the variables of the specifications that apply one function on its own
pureVars == << input, output >>

(***************************************************************************)
(* Pure functions.                                                         *)
(***************************************************************************)
\* str.lower() on one character
LowerChar(c) ==
    CASE c = "C" -> "c"
      [] c = "A" -> "a"
      [] c = "M" -> "m"
      [] c = "H" -> "h"
      [] c = "U" -> "u"
      [] c = "B" -> "b"
      [] OTHER -> c

\* str.lower()
Lower(s) == [i \in 1..Len(s) |-> LowerChar(s[i])]

\* keyword in model (substring test)
Contains(s, k) ==
    \E i \in 0..(Len(s) - Len(k)) : \A j \in 1..Len(k) : s[i + j] = k[j]

\* line 28: [model.strip().lower() for model in ...split(',')], on the
\* list of the entry's comma-separated parts
LoadModels(raw) == [n \in 1..Len(raw) |-> Lower(raw[n])]

\* self.camera_models: of the configuration given as an argument when
\* is_camera is applied on its own, of the daemon's configuration otherwise
camera_models ==
    LoadModels(IF input.kind = "classify" THEN input.config
               ELSE ConfiguredModels)

\* device.get('ID_MODEL', ''), line 95
IdModel(device) ==
    IF "ID_MODEL" \in device.props THEN device.model ELSE <<>>

\* is_camera, lines 91-97
is_camera(device) ==
    LET model == Lower(IdModel(device))
    IN  \E n \in 1..Len(camera_models) : Contains(model, camera_models[n])

\* get_device_mount_path followed by mount_path.exists(), lines 83-89, 208
MountFound(device) == mounted[device.path]

\* the duration rounded up to whole seconds
CeilDuration(d) == (d + Scale - 1) \div Scale

\* int(clip.duration), line 146
IntDuration(d) == d \div Scale

\* range(0, duration, self.screencap_interval), line 148
RECURSIVE Range(_, _, _)
Range(from, to, step) ==
    IF from >= to THEN <<>> ELSE <<from>> \o Range(from + step, to, step)

\* range(0, duration, self.screencap_interval), lines 146-148
OffsetsOf(d, interval) == Range(0, IntDuration(d), interval)

Offsets == OffsetsOf(VideoDuration, Interval)

NoHist ==
    [path |-> "none", seq |-> 0,
     started |-> 0, polls |-> 0, outcome |-> "none", found |-> FALSE]

\* incoming_dir after setup_directories (line 59): no date bucket yet
EmptyArchive == [bucket |-> FALSE, videos |-> FALSE, screencaps |-> FALSE]

None == [kind |-> "none"]

\* the daemon after __init__, before run()
DaemonInit ==
    /\ shutdown_event = FALSE
    /\ mainpc = "run"
    /\ obspc = "init"
    /\ cur = NoEvent
    /\ pollIdx = 0
    /\ stopSent = FALSE
    /\ pending = <<>>
    /\ delivered = 0
    /\ curId = 0
    /\ mounted \in [Devices -> BOOLEAN]
    /\ workers = <<>>
    /\ hist = [e \in 1..MaxEvents |-> NoHist]
    /\ archive = EmptyArchive

Init ==
    /\ DaemonInit
    /\ input = None
    /\ output = None

(***************************************************************************)
(* The environment: signals, device events, the automount service.         *)
(***************************************************************************)
obsVars == << obspc, cur, pollIdx, curId, hist >>
envVars == << pending, delivered, mounted >>

\* shutdown(signum, frame), lines 246-251: the handler registered by run()
\* runs in the main thread between two of its instructions, for every
\* signal delivered; set() on a flag that is set changes nothing
shutdown ==
    /\ mainpc # "run"
    /\ shutdown_event' = TRUE
    /\ UNCHANGED << mainpc, stopSent, workers, archive >>
    /\ UNCHANGED obsVars
    /\ UNCHANGED envVars
    /\ UNCHANGED pureVars

\* an event on the monitor's socket; seq is its place in the delivery order
Queued(e, n) ==
    [path |-> e.path, action |-> e.action, model |-> e.model,
     props |-> e.props, seq |-> n]

\* the OS notification source queues a usb event on the monitor's socket,
\* which exists once the observer was started (lines 231-234)
DeliverFrom(kinds) ==
    /\ obspc # "init"
    /\ delivered < MaxEvents
    /\ \E e \in kinds : pending' = Append(pending, Queued(e, delivered + 1))
    /\ delivered' = delivered + 1
    /\ UNCHANGED << shutdown_event, mainpc, stopSent, mounted, workers,
                    archive >>
    /\ UNCHANGED obsVars
    /\ UNCHANGED pureVars

Deliver == DeliverFrom(EventKinds)

\* the events of a host to which only cameras are attached
DeliverCamera ==
    DeliverFrom({e \in EventKinds : e.action = "add" /\ is_camera(e)})

\* the automount service mounts a device's volume
Automount ==
    /\ \E d \in Devices :
         /\ ~mounted[d]
         /\ mounted' = [mounted EXCEPT ![d] = TRUE]
    /\ UNCHANGED << shutdown_event, mainpc, stopSent, pending,
                    delivered, workers, archive >>
    /\ UNCHANGED obsVars
    /\ UNCHANGED pureVars

(***************************************************************************)
(* The main thread: run() and device_event_listener().                     *)
(***************************************************************************)
mainFrame ==
    /\ UNCHANGED << shutdown_event, workers, archive >>
    /\ UNCHANGED envVars
    /\ UNCHANGED pureVars

\* run, lines 257-261: register the signal handlers
RunRegister ==
    /\ mainpc = "run"
    /\ mainpc' = "listen"
    /\ UNCHANGED << stopSent >>
    /\ UNCHANGED obsVars
    /\ mainFrame

\* device_event_listener, lines 231-235: observer.start()
ListenerStart ==
    /\ mainpc = "listen"
    /\ mainpc' = "loop"
    /\ obspc' = "wait"
    /\ UNCHANGED << stopSent, cur, pollIdx, curId, hist >>
    /\ mainFrame

\* a loop that never looks at the flag
LoopNeverExits == FALSE

\* line 238: the condition that ends the while loop
LoopExits == shutdown_event

\* line 238: while not self.shutdown_event.is_set()
LoopCheck ==
    /\ mainpc = "loop"
    /\ mainpc' = IF LoopExits THEN "stop" ELSE "sleep"
    /\ UNCHANGED << stopSent >>
    /\ UNCHANGED obsVars
    /\ mainFrame

\* line 239: time.sleep(1)
LoopSleep ==
    /\ mainpc = "sleep"
    /\ mainpc' = "loop"
    /\ UNCHANGED << stopSent >>
    /\ UNCHANGED obsVars
    /\ mainFrame

\* line 243, observer.stop(): first half, the stop event is sent
ObserverSendStop ==
    /\ mainpc = "stop"
    /\ stopSent' = TRUE
    /\ mainpc' = "join"
    /\ UNCHANGED obsVars
    /\ mainFrame

\* a stop that only sends the stop event (send_stop) and does not join
StopReturnsAtOnce == TRUE

\* whether observer.stop() may return: it joins the observer thread
StopReturns == obspc = "exited"

\* lines 243-244 and 266: observer.stop() returns, run() logs and returns
ObserverJoined ==
    /\ mainpc = "join"
    /\ StopReturns
    /\ mainpc' = "returned"
    /\ UNCHANGED << stopSent >>
    /\ UNCHANGED obsVars
    /\ mainFrame

(***************************************************************************)
(* The MonitorObserver thread: it reads the queued events one at a time    *)
(* and calls handle_event(device) for each; it exits on the stop event.    *)
(***************************************************************************)
obsFrame ==
    /\ UNCHANGED << shutdown_event, mainpc, stopSent >>
    /\ UNCHANGED << delivered, mounted, archive >>
    /\ UNCHANGED pureVars

\* the record of a thread started by threading.Thread(...).start()
NewWorker(e, path) ==
    [ev |-> e, path |-> path, pc |-> "walk", idx |-> 1, k |-> 1,
     triaged |-> {}, attempted |-> {}, afterFlag |-> 0,
     flagAtStart |-> shutdown_event, frameFailed |-> FALSE,
     clip |-> FALSE]

\* handle_event returns to the observer's read loop
Return(outcome) ==
    /\ obspc' = "wait"
    /\ cur' = NoEvent
    /\ pollIdx' = 0
    /\ hist' = [hist EXCEPT ![curId].outcome = outcome]

\* a reader that takes the newest queued event first
NewestEvent == Len(pending)

\* the socket is read in arrival order: the oldest queued event is next
NextEvent == 1

\* the observer thread takes the next queued event and calls the callback
ObsRead ==
    /\ obspc = "wait"
    /\ pending # <<>>
    /\ cur' = pending[NextEvent]
    /\ pending' = SubSeq(pending, 1, NextEvent - 1)
                     \o SubSeq(pending, NextEvent + 1, Len(pending))
    /\ curId' = curId + 1
    /\ obspc' = "entry"
    /\ hist' = [hist EXCEPT ![curId + 1].path = pending[NextEvent].path,
                            ![curId + 1].seq = pending[NextEvent].seq]
    /\ UNCHANGED << pollIdx, workers >>
    /\ obsFrame

\* the observer thread reads the stop event and ends
ObsExit ==
    /\ obspc = "wait"
    /\ stopSent
    /\ obspc' = "exited"
    /\ UNCHANGED << cur, pollIdx, curId, hist, pending, workers >>
    /\ obsFrame

\* line 197: if self.shutdown_event.is_set()
EventDiscarded == shutdown_event

\* handle_event, lines 197-199
HandleEntry ==
    /\ obspc = "entry"
    /\ IF EventDiscarded
         THEN Return("ignored")
         ELSE /\ obspc' = "classify"
              /\ UNCHANGED << cur, pollIdx, hist >>
    /\ UNCHANGED << curId, pending, workers >>
    /\ obsFrame

\* a handler that treats every action as an add
AnyAction(device) == TRUE

\* line 204: if action == 'add'
IsAdd(device) == device.action = "add"

\* handle_event, lines 201-213: classify, first mount check
HandleClassify ==
    /\ obspc = "classify"
    /\ IF ~IsAdd(cur)
         THEN Return("not_add") /\ UNCHANGED workers
         ELSE IF ~is_camera(cur)
         THEN Return("not_camera") /\ UNCHANGED workers
         ELSE IF MountFound(cur)
         THEN /\ workers' = Append(workers, NewWorker(curId, cur.path))
              /\ obspc' = "wait"
              /\ cur' = NoEvent
              /\ pollIdx' = 0
              /\ hist' = [hist EXCEPT ![curId].outcome = "started",
                                      ![curId].started = @ + 1,
                                      ![curId].found = @ \/ ~shutdown_event]
         ELSE /\ obspc' = "poll_check"
              /\ pollIdx' = 0
              /\ UNCHANGED << cur, hist, workers >>
    /\ UNCHANGED << curId, pending >>
    /\ obsFrame

\* a wait loop that runs one iteration too many
PollExhaustedLate(i) == i >= MaxPolls + 1

\* line 214: for _ in range(10) has run out
PollExhausted(i) == i >= MaxPolls

\* line 215: if self.shutdown_event.is_set()
PollAborted == shutdown_event

\* handle_event, lines 214-217 and 224-225: loop head and cancellation check
PollCheck ==
    /\ obspc = "poll_check"
    /\ IF PollExhausted(pollIdx)
         THEN Return("not_found")
         ELSE IF PollAborted
         THEN Return("aborted")
         ELSE /\ obspc' = "poll_sleep"
              /\ UNCHANGED << cur, pollIdx, hist >>
    /\ UNCHANGED << curId, pending, workers >>
    /\ obsFrame

\* line 223: break after the worker was started
PollBreaks == TRUE

\* handle_event, lines 218-223: sleep, re-read the mount state
PollSleep ==
    /\ obspc = "poll_sleep"
    /\ IF MountFound(cur)
         THEN /\ workers' = Append(workers, NewWorker(curId, cur.path))
              /\ IF PollBreaks
                   THEN /\ obspc' = "wait"
                        /\ cur' = NoEvent
                        /\ pollIdx' = 0
                   ELSE /\ obspc' = "poll_check"
                        /\ pollIdx' = pollIdx + 1
                        /\ UNCHANGED cur
              /\ hist' = [hist EXCEPT ![curId].outcome = "started",
                                      ![curId].started = @ + 1,
                                      ![curId].polls = @ + 1,
                                      ![curId].found = @ \/ ~shutdown_event]
         ELSE /\ obspc' = "poll_check"
              /\ pollIdx' = pollIdx + 1
              /\ hist' = [hist EXCEPT ![curId].polls = @ + 1]
              /\ UNCHANGED << cur, workers >>
    /\ UNCHANGED << curId, pending >>
    /\ obsFrame

(***************************************************************************)
(* The worker threads: process_device(mount_path) and the media triage.    *)
(***************************************************************************)
workerFrame ==
    /\ UNCHANGED << shutdown_event, mainpc, stopSent >>
    /\ UNCHANGED obsVars
    /\ UNCHANGED envVars
    /\ UNCHANGED pureVars

\* a walk that never looks at the flag
WalkNeverCancelled == FALSE

\* line 186: if self.shutdown_event.is_set()
WalkCancelled == shutdown_event

\* process_device, lines 184-188 and 191: next file of the walk, then the
\* cancellation check
Walk(i) ==
    LET w == workers[i]
    IN  /\ w.pc = "walk"
        /\ workers' =
             [workers EXCEPT ![i].pc =
                 IF w.idx > Len(Volume(w.path)) THEN "finished"
                 ELSE IF WalkCancelled THEN "cancelled"
                 ELSE "file"]
        /\ UNCHANGED archive
        /\ workerFrame

\* what process_image can meet: the EXIF read fails (caught, line 110), the
\* date bucket cannot be created (line 122), the copy fails (caught, line 126)
ImageOutcomes == {"ok", "exif_fail", "mkdir_fail", "copy_fail"}

\* what lines 135-148 of process_video can meet: the EXIF read fails
\* (caught, line 110); the screencaps directory cannot be created (line
\* 140), the copy fails (line 142), the clip cannot be opened (line 145),
\* reading the duration or building the range fails (lines 146-148): each
\* of these is caught by the handler of line 165
VideoOutcomes ==
    {"ok", "exif_fail", "mkdir_fail", "copy_fail", "open_fail",
     "duration_fail"}

\* an uncaught exception that takes every thread of the process down
ProcessDies(i) ==
    [j \in 1..Len(workers) |->
        [workers[j] EXCEPT !.pc = "crashed"]]

\* an exception that leaves the thread's target ends that thread
ThreadDies(i) == [workers EXCEPT ![i].pc = "crashed"]

\* process_file -> process_image, lines 114-127
ImageStep(i, o) ==
    IF o = "mkdir_fail"
      THEN ThreadDies(i)
      ELSE [workers EXCEPT ![i].pc = "walk", ![i].idx = @ + 1]

\* process_file -> process_video, lines 133-147 and 165-166; clip is
\* whether the VideoFileClip of line 145 is open
VideoStep(i, o) ==
    IF o \in {"ok", "exif_fail"}
      THEN [workers EXCEPT ![i].pc = "frames", ![i].k = 1, ![i].clip = TRUE]
      ELSE [workers EXCEPT ![i].pc = "walk",
                           ![i].idx = @ + 1,
                           ![i].clip = (o = "duration_fail")]

\* the date bucket after process_image, lines 121-124
ArchiveAfterImage(o) ==
    IF o = "mkdir_fail" THEN archive ELSE [archive EXCEPT !.bucket = TRUE]

\* the date bucket after lines 138-142 of process_video: the screencaps
\* directory (and with it the bucket) is created, then the video is copied
ArchiveAfterVideo(o) ==
    IF o = "mkdir_fail" THEN archive
    ELSE IF o = "copy_fail"
      THEN [archive EXCEPT !.bucket = TRUE, !.screencaps = TRUE]
      ELSE [bucket |-> TRUE, videos |-> TRUE, screencaps |-> TRUE]

\* the history of a file handed to process_file (line 190)
Triaged(ws, i) ==
    [ws EXCEPT ![i].triaged = @ \cup {workers[i].idx},
               ![i].afterFlag = @ + (IF shutdown_event THEN 1 ELSE 0)]

\* process_device line 189-190 and process_file, lines 172-177
ProcessFile(i) ==
    LET w == workers[i]
        kind == Volume(w.path)[w.idx]
    IN  /\ w.pc = "file"
        /\ CASE kind = "image" ->
                  \E o \in ImageOutcomes :
                      /\ workers' = Triaged(ImageStep(i, o), i)
                      /\ archive' = ArchiveAfterImage(o)
             [] kind = "video" ->
                  \E o \in VideoOutcomes :
                      /\ workers' = Triaged(VideoStep(i, o), i)
                      /\ archive' = ArchiveAfterVideo(o)
             [] OTHER ->
                  /\ workers' = Triaged([workers EXCEPT ![i].pc = "walk",
                                                        ![i].idx = @ + 1], i)
                  /\ UNCHANGED archive
        /\ workerFrame

\* line 149: if self.shutdown_event.is_set()
FrameCancelled == shutdown_event

\* lines 160-161: a failure at one offset is logged and the loop goes on
FrameFailureContinues == TRUE

\* process_video, lines 148-164: one iteration of the screenshot loop, or
\* its end and the release of the clip
Frame(i) ==
    LET w == workers[i]
        next == [workers EXCEPT ![i].pc = "walk",
                                ![i].idx = @ + 1,
                                ![i].clip = FALSE]
    IN  /\ w.pc = "frames"
        /\ IF w.k > Len(Offsets) \/ FrameCancelled
             THEN workers' = next
             ELSE \E ok \in BOOLEAN :
                    IF ok \/ FrameFailureContinues
                      THEN workers' =
                             [workers EXCEPT
                                ![i].attempted = @ \cup {Offsets[w.k]},
                                ![i].k = @ + 1,
                                ![i].frameFailed = @ \/ ~ok]
                      ELSE workers' =
                             [next EXCEPT
                                ![i].attempted = @ \cup {Offsets[w.k]},
                                ![i].frameFailed = TRUE]
        /\ UNCHANGED archive
        /\ workerFrame

(***************************************************************************)
(* The specification.                                                      *)
(***************************************************************************)
MainStep ==
    \/ RunRegister
    \/ ListenerStart
    \/ LoopCheck
    \/ LoopSleep
    \/ ObserverSendStop
    \/ ObserverJoined

ObsStep ==
    \/ ObsRead
    \/ ObsExit
    \/ HandleEntry
    \/ HandleClassify
    \/ PollCheck
    \/ PollSleep

WorkerStep(i) ==
    \/ Walk(i)
    \/ ProcessFile(i)
    \/ Frame(i)

Next ==
    \/ shutdown
    \/ Deliver
    \/ Automount
    \/ MainStep
    \/ ObsStep
    \/ \E i \in 1..Len(workers) : WorkerStep(i)

Spec == Init /\ [][Next]_vars

(***************************************************************************)
(* The main and observer threads alone.  A worker thread reads             *)
(* shutdown_event and writes nothing but its own record, which neither the *)
(* main thread nor the observer thread reads: leaving the workers' steps   *)
(* out changes no behaviour of these two threads.                          *)
(***************************************************************************)
LoopNext ==
    \/ shutdown
    \/ Deliver
    \/ Automount
    \/ MainStep
    \/ ObsStep

LoopSpec == Init /\ [][LoopNext]_vars

\* every thread that can run is eventually scheduled (the interpreter
\* switches threads at a fixed interval); the environment owes nothing
LoopFairSpec ==
    /\ LoopSpec
    /\ WF_vars(MainStep)
    /\ WF_vars(ObsStep)

(***************************************************************************)
(* The daemon on a host whose volumes are all mounted before the device    *)
(* events arrive: no automount wait takes place, so Automount, PollCheck   *)
(* and PollSleep are never enabled and are left out of the next-state      *)
(* relation.  Only cameras are attached: every event is the add event of a *)
(* camera.                                                                 *)
(***************************************************************************)
WorkerInit == Init /\ mounted = [d \in Devices |-> TRUE]

WorkerNext ==
    \/ shutdown
    \/ DeliverCamera
    \/ MainStep
    \/ ObsRead
    \/ ObsExit
    \/ HandleEntry
    \/ HandleClassify
    \/ \E i \in 1..Len(workers) : WorkerStep(i)

WorkerSpec == WorkerInit /\ [][WorkerNext]_vars

(***************************************************************************)
(* Properties.                                                             *)
(***************************************************************************)
Active(w) == w.pc \in {"walk", "file", "frames"}

Terminated(w) == w.pc \in {"finished", "cancelled", "crashed"}

InHandler == obspc \in {"entry", "classify", "poll_check", "poll_sleep"}

Polling == obspc \in {"poll_check", "poll_sleep"}

AllFiles(w) == 1..Len(Volume(w.path))

OffsetSet == {Offsets[n] : n \in 1..Len(Offsets)}

\* C1: at most one process_device worker is active for a device path at a
\* time; a second add event for a path whose worker is still running starts
\* no second concurrent worker.
OneWorkerPerPath ==
    \A i, j \in 1..Len(workers) :
        (i # j /\ Active(workers[i]) /\ Active(workers[j]))
            => workers[i].path # workers[j].path

\* C2: no worker is ever started while the shutdown flag is set, whatever
\* the interleaving of the signal handler with the callback thread.
NoWorkerStartedAfterShutdown ==
    \A i \in 1..Len(workers) : ~workers[i].flagAtStart

\* C3: once the flag is set a worker hands at most one more file to
\* process_file (the one whose cancellation check it had already passed),
\* and a worker that saw the flag at its check stopped with files left.
CancelStopsWalk ==
    \A i \in 1..Len(workers) :
        LET w == workers[i]
        IN  /\ w.afterFlag <= 1
            /\ (w.pc = "file" /\ shutdown_event) => w.afterFlag = 0
            /\ w.pc = "cancelled" =>
                 /\ shutdown_event
                 /\ w.idx <= Len(Volume(w.path))
                 /\ w.idx \notin w.triaged

\* C3 witness: a worker cancelled mid-walk after finishing the one file it
\* had in hand when the flag was set, with files still unprocessed.
CancelStopsWalkWitness ==
    \E i \in 1..Len(workers) :
        /\ workers[i].pc = "cancelled"
        /\ workers[i].afterFlag = 1
        /\ workers[i].triaged # {}
        /\ workers[i].idx <= Len(Volume(workers[i].path))

\* C4: run() returns only after observer.stop() has stopped the observer
\* thread: once run() has returned no handle_event callback is running and
\* none starts.
RunReturnsAfterObserverStopped ==
    mainpc = "returned" => (shutdown_event /\ stopSent /\ obspc = "exited")

\* C4 witness: run() has returned after a shutdown that caught a callback in
\* its automount wait.
RunReturnsWitness ==
    /\ mainpc = "returned"
    /\ \E e \in 1..MaxEvents : hist[e].outcome = "aborted"

\* C5: once a signal has been delivered run() eventually returns.
ShutdownLeadsToReturn ==
    shutdown_event ~> (mainpc = "returned" /\ stopSent /\ obspc = "exited")

\* C5 witness: the signal arrives while the callback thread is in the middle
\* of an automount wait and the main thread idles in its loop.
ShutdownDuringPollWitness ==
    /\ shutdown_event
    /\ obspc = "poll_sleep"
    /\ mainpc = "sleep"

\* C6: a handled event starts exactly one worker when its device is a
\* camera whose mount point exists at one of the checks with shutdown not
\* requested, and none otherwise.
OneWorkerIffMountFound ==
    \A e \in 1..MaxEvents :
        (hist[e].outcome # "none" /\ (e # curId \/ ~InHandler)) =>
            hist[e].started = (IF hist[e].found THEN 1 ELSE 0)

\* C7: the handling of an event for another device never waits for the
\* automount polling of the event before it.
EventNeverWaitsOnPoll ==
    ~(Polling /\ pending # <<>> /\ Head(pending).path # cur.path)

\* C8: the automount wait re-reads the mount state at most MaxPolls times;
\* an event whose mount never showed up ends with the failure logged, no
\* worker and the observer thread alive, also when the mount appears later.
PollCeiling ==
    \A e \in 1..MaxEvents :
        /\ hist[e].polls <= MaxPolls
        /\ hist[e].outcome = "not_found" =>
             /\ hist[e].polls = MaxPolls
             /\ hist[e].started = 0
             /\ \A i \in 1..Len(workers) : workers[i].ev # e
             /\ (e = curId /\ ~stopSent) => obspc = "wait"

\* C8 witness: the wait ran out, and the volume was mounted afterwards.
PollCeilingWitness ==
    \E e \in 1..MaxEvents :
        /\ hist[e].outcome = "not_found"
        /\ mounted[hist[e].path]
        /\ mainpc \in {"loop", "sleep"}

\* C9: a step of one worker, be it a file triaged, an error caught by a
\* per-file handler or an error that ends the worker, touches nothing but
\* that worker: the other workers, the observer thread and the main thread
\* are left as they were; and no event ever has more than one worker.
WorkerFailureIsolated ==
    /\ [](\A e \in 1..MaxEvents : hist[e].started <= 1)
    /\ [][\A i \in 1..Len(workers) :
            workers'[i] # workers[i] =>
                /\ \A j \in 1..Len(workers) : j # i => workers'[j] = workers[j]
                /\ Len(workers') = Len(workers)
                /\ mainpc' = mainpc
                /\ obspc' = obspc
                /\ pending' = pending]_vars

\* C9 witness: two devices, one worker each; one worker died of an error
\* that escaped the per-file handlers, the other walked its whole volume,
\* and the daemon is still listening.
WorkerFailureWitness ==
    /\ Len(workers) = 2
    /\ workers[1].path # workers[2].path
    /\ workers[1].ev # workers[2].ev
    /\ \E i, j \in 1..2 :
          /\ workers[i].pc = "crashed"
          /\ workers[j].pc = "finished"
          /\ workers[j].triaged = AllFiles(workers[j])
    /\ mainpc \in {"loop", "sleep"}
    /\ obspc = "wait"
    /\ ~shutdown_event

\* C10: with shutdown not requested, a per-file error never keeps a worker
\* from triaging every later file of its walk, and a failed frame offset
\* never keeps it from attempting the remaining offsets of that video.
PerFileErrorsRecovered ==
    \A i \in 1..Len(workers) :
        LET w == workers[i]
        IN  ~shutdown_event =>
              /\ Terminated(w) => w.triaged = AllFiles(w)
              /\ (w.frameFailed /\ w.pc # "frames") => w.attempted = OffsetSet

\* C11: events are handled in delivery order, one at a time: the e-th
\* event handled is the e-th delivered, its handling begins only when that
\* of every earlier event has ended, and workers are started in the
\* delivery order of their events.
DispatchInOrder ==
    /\ \A e \in 1..curId :
         /\ hist[e].seq = e
         /\ e < curId => hist[e].outcome # "none"
    /\ \A i, j \in 1..Len(workers) :
         i < j => hist[workers[i].ev].seq < hist[workers[j].ev].seq

\* C11 witness: two add events each started a worker, the first after an
\* automount wait during which the second was already queued.
DispatchInOrderWitness ==
    /\ Len(workers) = 2
    /\ hist[workers[1].ev].seq = 1
    /\ hist[workers[1].ev].polls > 0
    /\ hist[workers[2].ev].seq = 2

\* an event that is no add, or the add of a device whose model name holds
\* no configured camera model
NotForIngestion(e) == e.action # "add" \/ e.model = OtherModel

\* C12: an event that is no add, or the add of a device that is no camera,
\* changes nothing but the log: while it is handled and afterwards it has
\* started no worker and no mount polling, and the steps that handle it
\* leave the workers, the archive, the shutdown flag, the mounts, the queue
\* and the main thread as they were.
IgnoredEventChangesNothing ==
    /\ [](\A e \in 1..curId :
            (\/ hist[e].outcome \in {"not_add", "not_camera"}
             \/ (e = curId /\ InHandler /\ NotForIngestion(cur))) =>
                /\ hist[e].started = 0
                /\ hist[e].polls = 0
                /\ (e = curId => ~Polling)
                /\ \A i \in 1..Len(workers) : workers[i].ev # e)
    /\ [][(obspc \in {"entry", "classify"} /\ obspc' # obspc
             /\ NotForIngestion(cur))
            => /\ obspc' \in {"classify", "wait"}
               /\ (obspc' = "wait" =>
                      hist'[curId].outcome \in {"ignored", "not_add",
                                                "not_camera"})
               /\ workers' = workers
               /\ archive' = archive
               /\ shutdown_event' = shutdown_event
               /\ mounted' = mounted
               /\ pending' = pending
               /\ mainpc' = mainpc]_vars
    /\ [][\A e \in 1..curId :
            hist[e].outcome \in {"not_add", "not_camera"}
                => hist'[e] = hist[e]]_vars

\* C12 witness: a remove event and the add event of a mounted device that
\* is no camera have both been handled, and nothing was started.
IgnoredEventWitness ==
    /\ \E e \in 1..curId : hist[e].outcome = "not_add"
    /\ \E e \in 1..curId :
          hist[e].outcome = "not_camera" /\ mounted[hist[e].path]
    /\ workers = <<>>
    /\ obspc = "wait"

(***************************************************************************)
(* is_camera applied on its own, to every device and every configured list *)
(* of a bounded set.                                                       *)
(***************************************************************************)
\* longest ID_MODEL value
MaxModelLen == 3
\* longest configured camera-model substring
MaxKeyLen == 2

\* the characters of the model names and of the configured substrings
Chars == {"a", "A", "b"}

RECURSIVE Strings(_)
Strings(n) ==
    IF n = 0 THEN {<<>>}
    ELSE LET shorter == Strings(n - 1)
         IN  shorter \cup {Append(t, c) : t \in shorter, c \in Chars}

\* the devices: with or without ID_MODEL, with or without the PTP property
ClassifyDevices ==
    {[model |-> m, props |-> {"ID_MODEL"} \cup p] :
        m \in Strings(MaxModelLen), p \in {{}, {"PTP"}}}
    \cup {[model |-> <<>>, props |-> p] : p \in {{}, {"PTP"}}}

\* the configured lists: one or two substrings (an empty one is what a
\* trailing comma or an empty entry gives)
ClassifyConfigs ==
    LET keys == Strings(MaxKeyLen)
    IN  {<<k>> : k \in keys} \cup {<<k1, k2>> : k1 \in keys, k2 \in keys}

ClassifyInit ==
    /\ DaemonInit
    /\ mounted = [d \in Devices |-> FALSE]
    /\ input \in {[kind |-> "classify", device |-> d, config |-> c] :
                     d \in ClassifyDevices, c \in ClassifyConfigs}
    /\ output = None

\* self.is_camera(device), as handle_event calls it at line 206
Classify ==
    /\ input.kind = "classify"
    /\ output.kind = "none"
    /\ output' = [kind |-> "classified", camera |-> is_camera(input.device)]
    /\ UNCHANGED << shutdown_event, mainpc, obspc, cur, pollIdx,
                    stopSent, pending, delivered, curId, mounted, workers,
                    hist, archive, input >>

ClassifySpec == ClassifyInit /\ [][Classify]_vars

\* two characters that differ at most in case
SameLetter(x, y) == x = y \/ {x, y} = {"a", "A"}

\* k occurs in s, case ignored
OccursIn(k, s) ==
    \E i \in 0..(Len(s) - Len(k)) : \A j \in 1..Len(k) : SameLetter(s[i + j], k[j])

\* C13: is_camera is true exactly when the device has a model name that
\* contains, case ignored, one of the configured substrings; it is false
\* otherwise, in particular when the device has no model name.
ClassifiedByModelName ==
    output.kind = "classified" =>
        (output.camera <=>
            /\ "ID_MODEL" \in input.device.props
            /\ \E n \in 1..Len(input.config) :
                   OccursIn(input.config[n], input.device.model))

\* C14: a device that carries the PTP property qualifies, whatever its
\* model name.
PtpAlwaysQualifies ==
    (output.kind = "classified" /\ "PTP" \in input.device.props)
        => output.camera

(***************************************************************************)
(* The frame offsets of process_video on their own, for every duration and *)
(* every interval of a bounded set: no shutdown, no frame failure.         *)
(***************************************************************************)
\* longest clip, in seconds
MaxSeconds == 9
\* largest screencap_interval, in seconds
MaxInterval == 3

FramesInit ==
    /\ DaemonInit
    /\ mounted = [d \in Devices |-> FALSE]
    /\ input \in {[kind |-> "video", duration |-> d, interval |-> i] :
                     d \in 0..(MaxSeconds * Scale), i \in 1..MaxInterval}
    /\ output = None

\* lines 146-148: the offsets the loop of process_video visits
ExtractFrames ==
    /\ input.kind = "video"
    /\ output.kind = "none"
    /\ output' = [kind |-> "frames",
                  offsets |-> OffsetsOf(input.duration, input.interval)]
    /\ UNCHANGED << shutdown_event, mainpc, obspc, cur, pollIdx,
                    stopSent, pending, delivered, curId, mounted, workers,
                    hist, archive, input >>

FramesSpec == FramesInit /\ [][ExtractFrames]_vars

\* the least n with n * q >= p
CeilDiv(p, q) == CHOOSE n \in 0..p : n * q >= p /\ (n = 0 \/ (n - 1) * q < p)

\* the whole seconds of a duration of d units
WholeSeconds(d) == CHOOSE f \in 0..d : f * Scale <= d /\ d < (f + 1) * Scale

\* the offsets are 0, I, 2I, ... and there are `count' of them
StepsOfInterval(offs, interval, count) ==
    /\ Len(offs) = count
    /\ \A n \in 1..Len(offs) : offs[n] = (n - 1) * interval

\* C15 as stated: for a clip of duration D and an interval I, the frames
\* are taken at the offsets 0, I, 2I, ... strictly below D, ceil(D / I) of
\* them, also when D has a fractional part.
FramesBelowDuration ==
    output.kind = "frames" =>
        StepsOfInterval(output.offsets, input.interval,
                        CeilDiv(input.duration, input.interval * Scale))

\* C15, amended: the frames are taken at the offsets 0, I, 2I, ... strictly
\* below the duration truncated to whole seconds, ceil(floor(D) / I) of
\* them; this is ceil(D / I) when D is a whole number of seconds.
FramesBelowWholeSeconds ==
    output.kind = "frames" =>
        /\ StepsOfInterval(output.offsets, input.interval,
                           CeilDiv(WholeSeconds(input.duration), input.interval))
        /\ \A n \in 1..Len(output.offsets) :
               output.offsets[n] < WholeSeconds(input.duration)
        /\ (input.duration = WholeSeconds(input.duration) * Scale
               => Len(output.offsets)
                      = CeilDiv(input.duration, input.interval * Scale))

\* a clip with a fractional duration, several frames taken, and no frame at
\* the last multiple of the interval below the duration
FramesBelowWholeSecondsWitness ==
    /\ output.kind = "frames"
    /\ input.duration # WholeSeconds(input.duration) * Scale
    /\ Len(output.offsets) >= 2
    /\ Len(output.offsets) < CeilDiv(input.duration, input.interval * Scale)

(***************************************************************************)
(* The decoder, the archive and the workers at the end of run().           *)
(***************************************************************************)
\* C16: a worker holds an open decoder only while process_video is in its
\* frame loop; once process_video has returned, by whatever path, the
\* decoder it opened has been released.
DecoderReleasedOnReturn ==
    \A i \in 1..Len(workers) : workers[i].clip => workers[i].pc = "frames"

\* C17: the screencaps directory of a date bucket exists only if the
\* bucket holds a copied video.
ScreencapsOnlyWithVideo == archive.screencaps => archive.videos

\* C19: when run() has returned, every worker thread that handle_event
\* started has terminated.
WorkersDoneAtReturn ==
    mainpc = "returned" =>
        \A i \in 1..Len(workers) : Terminated(workers[i])

(***************************************************************************)
(* The label of a screenshot's file name on its own, for every offset of a *)
(* day and a set of host time zones.                                       *)
(***************************************************************************)
DaySeconds == 24 * 3600

\* the host's offset from UTC at the epoch, in seconds: UTC, +01:00,
\* -05:00, +05:30
TimeZones == {0, 3600, 0 - 18000, 19800}

\* %H, %M, %S of strftime: two decimal digits
Pad2(n) == << n \div 10, n % 10 >>

\* datetime.fromtimestamp(t).strftime("%H-%M-%S"), line 155: the time of
\* day, in the host's zone, t seconds after the epoch
Timestamp(t, tz) ==
    LET local == (t + tz) % DaySeconds
    IN  << Pad2(local \div 3600), Pad2((local % 3600) \div 60),
           Pad2(local % 60) >>

NameInit ==
    /\ DaemonInit
    /\ mounted = [d \in Devices |-> FALSE]
    /\ input \in {[kind |-> "offset", t |-> t, tz |-> z] :
                     t \in 0..(DaySeconds - 1), z \in TimeZones}
    /\ output = None

\* lines 155-156: the label in the screenshot's file name
NameScreenshot ==
    /\ input.kind = "offset"
    /\ output.kind = "none"
    /\ output' = [kind |-> "name", label |-> Timestamp(input.t, input.tz)]
    /\ UNCHANGED << shutdown_event, mainpc, obspc, cur, pollIdx,
                    stopSent, pending, delivered, curId, mounted, workers,
                    hist, archive, input >>

NameSpec == NameInit /\ [][NameScreenshot]_vars

\* the two decimal digits of n
TwoDigits(n) ==
    CHOOSE p \in (0..9) \X (0..9) : 10 * p[1] + p[2] = n

\* C18: the screenshot of offset t is labelled HH-MM-SS with HH = t div
\* 3600, MM = (t mod 3600) div 60, SS = t mod 60, two digits each, whatever
\* the host's time zone.
LabelIsOffset ==
    output.kind = "name" =>
        output.label = << TwoDigits(input.t \div 3600),
                          TwoDigits((input.t % 3600) \div 60),
                          TwoDigits(input.t % 60) >>

====
